---- MODULE Spec2Model ----
(***************************************************************************)
(* KavPlus backend: the /ai/chat streaming gateway and the Login-with-     *)
(* Amazon token routes, as state machines.                                 *)
(*                                                                         *)
(* Text is modelled as a sequence of atoms: an atom is a run of characters *)
(* that the model never cuts ("data:", "{", one JSON member, "}", a space, *)
(* a newline, ...).  A chunk boundary of the upstream body may fall        *)
(* between any two atoms.                                                  *)
(***************************************************************************)
EXTENDS Integers, Sequences, FiniteSets, TLC

\* ------------------------------------------------------------------ bounds
\* lines an upstream body may hold, under the configuration with every key
MaxFrames == 3
\* lines an upstream body may hold, under any configuration
MaxFramesAnyEnv == 2
\* lines an upstream body may hold, where the requests vary
MaxFramesPayload == 1
\* atoms one reader.read() may deliver
MaxChunk == 2
\* lines one reader.read() may complete
MaxChunkLines == 2
\* characters of a Gemini answer
MaxText == 2
\* store-repository calls made
MaxWriters == 2
\* token-route requests served
MaxRequests == 2
\* ticks of the clock
MaxTime == 2

\* ------------------------------------------------------------- vocabulary
None == "<none>"
Undefined == "<undefined>"
\* null, where an object is expected
null == [null |-> TRUE]
NL == "\n"
SP == " "

\* the providers of the fixed priority order of pickProvider
Providers == <<"openai", "aimlapi", "anthropic", "gemini">>
ProviderSet == {Providers[i] : i \in 1..Len(Providers)}

\* String.prototype.toLowerCase on the provider names the model uses
toLowerCase(s) ==
    CASE s = "OpenAI" -> "openai"
      [] OTHER -> s

\* String.prototype.toUpperCase on the provider names of the OpenAI branch and
\* on the roles of messages
toUpperCase(s) ==
    CASE s = "openai" -> "OPENAI"
      [] s = "aimlapi" -> "AIMLAPI"
      [] s = "user" -> "USER"
      [] s = "assistant" -> "ASSISTANT"
      [] OTHER -> s

\* ------------------------------------------------------------------ state
VARIABLES
    env,       \* process.env: keys (providers with an API key), AI_PROVIDER
    pc,        \* where the /ai/chat handler stands
    req,       \* req.body of the request being served
    chosen,    \* const chosen
    upstream,  \* every atom reader.read() has delivered so far
    buffer,    \* let buffer (OpenAI-compatible branch)
    out,       \* what was written to res: token, error and end events
    fetches,   \* the upstream HTTP calls issued, in order
    failed,    \* whether fetch, r.json() or reader.read() threw
    maxLines,  \* how many lines the upstream sends at most
    AI_MODEL,  \* process.env.AI_MODEL
    sentBody,  \* the JSON body of the upstream call, once issued
    closed     \* null, or what had been written and read when the caller left

gatewayVars ==
    <<env, pc, req, chosen, upstream, buffer, out, fetches, failed, maxLines,
      AI_MODEL, sentBody, closed>>

VARIABLES
    TOKENS,    \* const TOKENS = { spapi, ads }: the in-memory token store
    now,       \* the clock read by new Date()
    rq         \* the token-route requests: one record per request

brokerVars == <<TOKENS, now, rq>>

VARIABLES
    file,      \* stores.json: whether it exists, and the list of stores it holds
    wr         \* the store-repository calls: one record per call

repoVars == <<file, wr>>

vars == <<gatewayVars, brokerVars, repoVars>>

\* ----------------------------------------------------------------- events
TokenEv(t) == [kind |-> "token", text |-> t]
ErrorEv(m) == [kind |-> "error", text |-> m]
EndEv == [kind |-> "end", text |-> ""]

\* const send = (obj) => res.write(...)
send(o, ev) == Append(o, ev)
\* const end = () => res.end()
end(o) == Append(o, EndEv)

\* ------------------------------------------------------- provider choice
\* const PROVIDER = (process.env.AI_PROVIDER || "auto").toLowerCase()
PROVIDER(e) == toLowerCase(e.AI_PROVIDER)

\* a slip: the priority order walked from its end
RECURSIVE FirstWithKeyReversed(_, _)
FirstWithKeyReversed(keys, i) ==
    IF i > Len(Providers) THEN "openai"
    ELSE IF Providers[Len(Providers) + 1 - i] \in keys THEN Providers[Len(Providers) + 1 - i]
    ELSE FirstWithKeyReversed(keys, i + 1)

\* a slip: no fallback to openai when no key is set
RECURSIVE FirstWithKeyNoFallback(_, _)
FirstWithKeyNoFallback(keys, i) ==
    IF i > Len(Providers) THEN None
    ELSE IF Providers[i] \in keys THEN Providers[i]
    ELSE FirstWithKeyNoFallback(keys, i + 1)

RECURSIVE FirstWithKey(_, _)
FirstWithKey(keys, i) ==
    IF i > Len(Providers) THEN "openai"
    ELSE IF Providers[i] \in keys THEN Providers[i]
    ELSE FirstWithKey(keys, i + 1)

pickProvider(e) ==
    IF PROVIDER(e) # "auto" THEN PROVIDER(e) ELSE FirstWithKey(e.keys, 1)

\* const chosen = (req.body?.provider || pickProvider()).toLowerCase()
Chosen(e, r) ==
    toLowerCase(IF r.provider \notin {None, ""} THEN r.provider ELSE pickProvider(e))

\* a slip: the key is taken to be there
HasKeyAlways(e, c) == TRUE

\* const key = process.env.<PROVIDER>_API_KEY; if (!key) ...
HasKey(e, c) == c \in e.keys

\* the text of the key-missing error of each branch
KeyMissing(c) ==
    CASE c \in {"openai", "aimlapi"} -> toUpperCase(c) \o " key missing"
      [] c = "anthropic" -> "ANTHROPIC_API_KEY missing"
      [] c = "gemini" -> "GEMINI_API_KEY missing"

UpstreamError(c) ==
    CASE c \in {"openai", "aimlapi"} -> c \o " error"
      [] c = "anthropic" -> "Anthropic error"
      [] c = "gemini" -> "Gemini error"

\* ------------------------------------------------------------ text atoms
\* JSON members: atom |-> <<path, value>>
Members ==
    ("content:Hel" :> <<"choices[0].delta.content", "Hel">>) @@
    ("content:lo" :> <<"choices[0].delta.content", "lo">>) @@
    ("content:" :> <<"choices[0].delta.content", "">>) @@
    ("delta.text:Hel" :> <<"delta.text", "Hel">>) @@
    ("delta.text:" :> <<"delta.text", "">>) @@
    ("content_block.text:lo" :> <<"content_block.text", "lo">>)

IsSpace(a) == a \in {SP, "\r"}

RECURSIVE TrimStart(_)
TrimStart(s) ==
    IF s # <<>> /\ (IsSpace(Head(s)) \/ Head(s) = NL) THEN TrimStart(Tail(s)) ELSE s

RECURSIVE TrimEnd(_)
TrimEnd(s) ==
    IF s # <<>> /\ (IsSpace(s[Len(s)]) \/ s[Len(s)] = NL)
    THEN TrimEnd(SubSeq(s, 1, Len(s) - 1)) ELSE s

\* String.prototype.trim
trim(s) == TrimEnd(TrimStart(s))

\* String.prototype.split("\n"): the pieces between newlines, at least one
RECURSIVE split(_)
split(s) ==
    IF \E i \in 1..Len(s) : s[i] = NL
    THEN LET i == CHOOSE k \in 1..Len(s) : s[k] = NL /\ \A j \in 1..(k - 1) : s[j] # NL
         IN  <<SubSeq(s, 1, i - 1)>> \o split(SubSeq(s, i + 1, Len(s)))
    ELSE <<s>>

\* JSON.parse: an object is "{" members "}", white space around it allowed;
\* anything else throws (ok = FALSE)
JSONparse(s) ==
    LET t == trim(s)
    IN  IF /\ Len(t) >= 2
           /\ t[1] = "{"
           /\ t[Len(t)] = "}"
           /\ \A i \in 2..(Len(t) - 1) : t[i] \in DOMAIN Members
        THEN [ok |-> TRUE, members |-> {t[i] : i \in 2..(Len(t) - 1)}]
        ELSE [ok |-> FALSE, members |-> {}]

\* json?.a?.b: the value at a path, or undefined
At(json, path) ==
    IF \E m \in json.members : Members[m][1] = path
    THEN Members[CHOOSE m \in json.members : Members[m][1] = path][2]
    ELSE Undefined

\* JavaScript truthiness of a string-or-undefined value
Truthy(v) == v \notin {Undefined, ""}

\* ------------------------------------------------------ upstream bodies
\* one OpenAI-style frame: data: {"choices":[{"delta":{"content":t}}]}
DeltaLine(m) == <<"data:", "{", m, "}">>
DoneLine == <<"data:", SP, "[DONE]">>
\* a keep-alive comment line of the transport
CommentLine == <<": ping">>

OpenAIMembers == {"content:Hel", "content:lo", "content:"}
\* a data line whose payload is not JSON: the closing brace is missing
BadLine == <<"data:", "{", "content:Hel">>
OpenAILines == {DeltaLine(m) : m \in OpenAIMembers} \cup {DoneLine, CommentLine, BadLine}

\* lines of an Anthropic answer: a bare JSON event, and the same event framed
\* as a server-sent event (data: {...})
AnthropicLines ==
    { <<"{", "delta.text:Hel", "}">>,
      <<"{", "content_block.text:lo", "}">>,
      <<"{", "delta.text:", "content_block.text:lo", "}">>,
      <<"data:", SP, "{", "delta.text:Hel", "}">> }

Lines(c) == IF c = "anthropic" THEN AnthropicLines ELSE OpenAILines

Alphabet(c) == {NL} \cup UNION { {l[i] : i \in 1..Len(l)} : l \in Lines(c) }

IsPrefix(p, s) == Len(p) <= Len(s) /\ SubSeq(s, 1, Len(p)) = p

\* what the upstream of provider c may have sent so far: whole lines of its
\* format, then the beginning of one more, max lines at most
ValidUpstream(c, r, max) ==
    LET segs == split(r)
        n == Len(segs)
    IN  /\ \A i \in 1..(n - 1) : segs[i] \in Lines(c)
        /\ \E l \in Lines(c) : IsPrefix(segs[n], l)
        /\ (n - 1) + (IF segs[n] = <<>> THEN 0 ELSE 1) <= max

\* the chunks of at most k atoms that may follow r
RECURSIVE Chunks(_, _, _, _)
Chunks(c, r, k, max) ==
    IF k = 0 THEN {<<>>}
    ELSE {<<>>} \cup
         UNION { {<<a>> \o t : t \in Chunks(c, Append(r, a), k - 1, max)} :
                 a \in {x \in Alphabet(c) : ValidUpstream(c, Append(r, x), max)} }

\* n lines of the format of provider c, each ended by a newline
RECURSIVE WholeLines(_, _)
WholeLines(c, n) ==
    IF n = 0 THEN {<<>>}
    ELSE {l \o <<NL>> \o t : l \in Lines(c), t \in WholeLines(c, n - 1)}

Min(a, b) == IF a < b THEN a ELSE b

\* the chunks that may follow r and end with a line: the rest of the line r
\* stands in, with or without its newline, and whole lines after it, k lines
\* at most
LineChunks(c, r, k, max) ==
    LET segs == split(r)
        p == segs[Len(segs)]
        rests == {SubSeq(l, Len(p) + 1, Len(l)) : l \in {x \in Lines(c) : IsPrefix(p, x)}}
        left == max - (Len(segs) - 1) - 1
        more == UNION {WholeLines(c, n) : n \in 0..Min(k - 1, left)}
    IN  {ch \in {rest \o <<NL>> \o t : rest \in rests, t \in more} \cup rests :
            ValidUpstream(c, r \o ch, max)}

\* the answers of Gemini: the characters of data.candidates[0].content.parts
GeminiTexts == UNION { [1..n -> {"H", "i"}] : n \in 0..MaxText }

\* -------------------------------------------------- the two line loops
startsWithData(s) == s # <<>> /\ Head(s) = "data:"

\* a slip: [DONE] ends the response but the loops go on (no return)
RECURSIVE ProcessOpenAINoReturn(_, _)
ProcessOpenAINoReturn(lines, o) ==
    IF lines = <<>> THEN [out |-> o, ended |-> FALSE]
    ELSE LET s == trim(Head(lines))
         IN  IF ~startsWithData(s) THEN ProcessOpenAINoReturn(Tail(lines), o)
             ELSE LET payload == trim(Tail(s))
                  IN  IF payload = <<"[DONE]">>
                      THEN ProcessOpenAINoReturn(Tail(lines), end(o))
                      ELSE LET json == JSONparse(payload)
                               delta == At(json, "choices[0].delta.content")
                           IN  ProcessOpenAINoReturn(Tail(lines),
                                   IF json.ok /\ Truthy(delta)
                                   THEN send(o, TokenEv(delta)) ELSE o)

\* a slip: a data line that is not JSON is reported and ends the response
RECURSIVE ProcessOpenAIStrict(_, _)
ProcessOpenAIStrict(lines, o) ==
    IF lines = <<>> THEN [out |-> o, ended |-> FALSE]
    ELSE LET s == trim(Head(lines))
         IN  IF ~startsWithData(s) THEN ProcessOpenAIStrict(Tail(lines), o)
             ELSE LET payload == trim(Tail(s))
                  IN  IF payload = <<"[DONE]">>
                      THEN [out |-> end(o), ended |-> TRUE]
                      ELSE LET json == JSONparse(payload)
                               delta == At(json, "choices[0].delta.content")
                           IN  IF ~json.ok
                               THEN [out |-> end(send(o, ErrorEv("bad frame"))), ended |-> TRUE]
                               ELSE ProcessOpenAIStrict(Tail(lines),
                                       IF Truthy(delta) THEN send(o, TokenEv(delta)) ELSE o)

\* for (const line of lines) { ... } of the OpenAI-compatible branch
RECURSIVE ProcessOpenAI(_, _)
ProcessOpenAI(lines, o) ==
    IF lines = <<>> THEN [out |-> o, ended |-> FALSE]
    ELSE LET s == trim(Head(lines))
         IN  IF ~startsWithData(s) THEN ProcessOpenAI(Tail(lines), o)
             ELSE LET payload == trim(Tail(s))
                  IN  IF payload = <<"[DONE]">>
                      THEN [out |-> end(o), ended |-> TRUE]
                      ELSE LET json == JSONparse(payload)
                               delta == At(json, "choices[0].delta.content")
                           IN  ProcessOpenAI(Tail(lines),
                                   IF json.ok /\ Truthy(delta)
                                   THEN send(o, TokenEv(delta)) ELSE o)

\* evt?.delta?.text || evt?.content_block?.text || ""
AnthropicText(evt) ==
    IF Truthy(At(evt, "delta.text")) THEN At(evt, "delta.text")
    ELSE IF Truthy(At(evt, "content_block.text")) THEN At(evt, "content_block.text")
    ELSE ""

\* for (const line of chunk.split("\n")) { ... } of the Anthropic branch
RECURSIVE ProcessAnthropic(_, _)
ProcessAnthropic(lines, o) ==
    IF lines = <<>> THEN o
    ELSE LET evt == JSONparse(Head(lines))
             text == AnthropicText(evt)
         IN  ProcessAnthropic(Tail(lines),
                 IF evt.ok /\ Truthy(text) THEN send(o, TokenEv(text)) ELSE o)

\* for (const ch of text) send({ token: ch })
RECURSIVE SendEach(_, _)
SendEach(text, o) ==
    IF text = <<>> THEN o ELSE SendEach(Tail(text), send(o, TokenEv(Head(text))))


\* =============================================== Login with Amazon routes
\* stores.json as read by storeRepo.js: one store with a refresh token, one
\* that has not been connected yet
stores ==
    << [id |-> "kav_plus", name |-> "KAV PLUS", refreshToken |-> "Atzr|kav"],
       [id |-> "jk", name |-> "J&K"] >>

\* the environment of server.js: REFRESH_TOKEN_kav_plus is set, the refresh
\* tokens of the other stores are not; LWA_CLIENT_ID and LWA_CLIENT_SECRET are
\* set (server.js:35-37 does not throw)
REFRESH_TOKEN == ("kav_plus" :> "Atzr|kav")

\* process.env[`REFRESH_TOKEN_${storeId}`]
getRefreshToken(storeId) ==
    IF storeId \in DOMAIN REFRESH_TOKEN THEN REFRESH_TOKEN[storeId] ELSE Undefined

\* stores.find((s) => s.id.toLowerCase() === key) || null
getStoreWithToken(id) ==
    IF id \in {None, ""} THEN null
    ELSE IF \E i \in 1..Len(stores) : toLowerCase(stores[i].id) = toLowerCase(id)
    THEN stores[CHOOSE i \in 1..Len(stores) :
                    /\ toLowerCase(stores[i].id) = toLowerCase(id)
                    /\ \A j \in 1..(i - 1) : toLowerCase(stores[j].id) # toLowerCase(id)]
    ELSE null

\* store.refreshToken: a property the record may lack
refreshTokenOf(store) ==
    IF "refreshToken" \in DOMAIN store THEN store.refreshToken ELSE Undefined

Slots == {"spapi", "ads"}
RefreshTokens == {"Atzr|1", "Atzr|2"}
ExpiresIn == {1, 2}
Reqs == 1..MaxRequests

\* TOKENS.x?.refresh_token
refresh_token(slot) ==
    IF TOKENS[slot] = null THEN Undefined ELSE TOKENS[slot].refresh_token

\* a request: the route and its store, where the handler stands, the refresh
\* token it sent, the calls it made (token endpoint, other upstreams), its
\* reply; and for the properties: the refresh token of the exchange response
\* (got), when the access token it obtained expires, and whether on arrival
\* the store had a refresh token (authorized) and an unexpired access token
\* obtained earlier (cached)
Idle ==
    [op |-> None, store |-> None, pc |-> "idle", sent |-> Undefined,
     tokenCalls |-> 0, otherCalls |-> 0, reply |-> None, got |-> None,
     expires |-> 0, authorized |-> FALSE, cached |-> FALSE]

\* a previously obtained access token of the store has not expired yet
Unexpired(store) ==
    \E q \in Reqs : /\ rq[q].store = store
                    /\ rq[q].expires > now

\* the store has a refresh token: in TOKENS (ads, spapi), in the environment
\* (getAccessToken) or in stores.json (/api/token/exchange)
Authorized(op, store) ==
    CASE op \in {"callback", "adsProfiles"} -> Truthy(refresh_token(store))
      [] op = "getAccessToken" -> store \in DOMAIN REFRESH_TOKEN
      [] op = "tokenExchange" ->
            \E i \in 1..Len(stores) :
                /\ stores[i].id = store
                /\ "refreshToken" \in DOMAIN stores[i]

\* a request arrives
Begin(p, op, store) ==
    [Idle EXCEPT !.op = op, !.store = store, !.cached = Unexpired(store),
                 !.authorized = Authorized(op, store)]

\* the request is answered without any call
Answer(r, reply) == [r EXCEPT !.pc = "done", !.reply = reply]

\* a slip: the call to the token endpoint is issued twice
CallTokenEndpointTwice(r, refreshToken) ==
    [r EXCEPT !.pc = "awaitToken", !.sent = refreshToken, !.tokenCalls = @ + 2]

\* fetch("https://api.amazon.com/auth/o2/token", ...) is issued
CallTokenEndpoint(r, refreshToken) ==
    [r EXCEPT !.pc = "awaitToken", !.sent = refreshToken, !.tokenCalls = @ + 1]

\* a slip: the record keeps the access token of the response
TokenRecordOfAccessToken(route, tokens, t) ==
    IF route = "spapi"
    THEN [refresh_token |-> tokens.access_token, region |-> "eu", saved_at |-> t]
    ELSE [refresh_token |-> tokens.access_token,
          api_base |-> "https://advertising-api-eu.amazon.com", saved_at |-> t]

\* TOKENS.spapi = { refresh_token, region, saved_at } and
\* TOKENS.ads = { refresh_token, api_base, saved_at }
TokenRecord(route, tokens, t) ==
    IF route = "spapi"
    THEN [refresh_token |-> tokens.refresh_token, region |-> "eu", saved_at |-> t]
    ELSE [refresh_token |-> tokens.refresh_token,
          api_base |-> "https://advertising-api-eu.amazon.com", saved_at |-> t]

\* a slip: both callbacks write TOKENS.spapi
SlotWrongRoute(route) == "spapi"

\* the slot an authorization callback writes: TOKENS.spapi or TOKENS.ads

SlotOf(route) == route

\* GET /connect/spapi/callback and /connect/ads/callback, up to the exchange
CallbackStart(p, route, query) ==
    /\ rq[p].pc = "idle"
    /\ rq' = [rq EXCEPT ![p] =
                IF query = "error" THEN Answer(Begin(p, "callback", route), "400 LWA error")
                ELSE IF query = "nocode" THEN Answer(Begin(p, "callback", route), "400 Missing code")
                ELSE CallTokenEndpoint(Begin(p, "callback", route), Undefined)]
    /\ UNCHANGED <<TOKENS, now, gatewayVars, repoVars>>

\* exchangeAuthCodeForTokens returns r.json(): the record is stored
CallbackSaved(p, tokens) ==
    /\ rq[p].pc = "awaitToken"
    /\ rq[p].op = "callback"
    /\ TOKENS' = [TOKENS EXCEPT ![SlotOf(rq[p].store)] =
                    TokenRecord(rq[p].store, tokens, now)]
    /\ rq' = [rq EXCEPT ![p] = [Answer(@, "200 saved") EXCEPT
                                    !.got = tokens.refresh_token,
                                    !.expires = now + tokens.expires_in]]
    /\ UNCHANGED <<now, gatewayVars, repoVars>>

\* exchangeAuthCodeForTokens throws (!r.ok, or fetch rejects): catch, 500
CallbackFailed(p) ==
    /\ rq[p].pc = "awaitToken"
    /\ rq[p].op = "callback"
    /\ rq' = [rq EXCEPT ![p] = Answer(@, "500 connect failed")]
    /\ UNCHANGED <<TOKENS, now, gatewayVars, repoVars>>

\* GET /ads/profiles, up to the refresh call
AdsProfilesStart(p) ==
    /\ rq[p].pc = "idle"
    /\ rq' = [rq EXCEPT ![p] =
                IF ~Truthy(refresh_token("ads"))
                THEN Answer(Begin(p, "adsProfiles", "ads"), "400 No Ads refresh token")
                ELSE CallTokenEndpoint(Begin(p, "adsProfiles", "ads"), refresh_token("ads"))]
    /\ UNCHANGED <<TOKENS, now, gatewayVars, repoVars>>

\* getAccessTokenFromRefresh returns: the Ads API is called
AdsProfilesRefreshed(p, expires_in) ==
    /\ rq[p].pc = "awaitToken"
    /\ rq[p].op = "adsProfiles"
    /\ rq' = [rq EXCEPT ![p] = [@ EXCEPT !.pc = "awaitAds", !.otherCalls = @ + 1,
                                         !.expires = now + expires_in]]
    /\ UNCHANGED <<TOKENS, now, gatewayVars, repoVars>>

\* getAccessTokenFromRefresh throws, or the Ads API answers !r.ok: catch, 500
AdsProfilesFailed(p) ==
    /\ rq[p].pc \in {"awaitToken", "awaitAds"}
    /\ rq[p].op = "adsProfiles"
    /\ rq' = [rq EXCEPT ![p] = Answer(@, "500 error")]
    /\ UNCHANGED <<TOKENS, now, gatewayVars, repoVars>>

\* res.json({ ok: true, profiles })
AdsProfilesDone(p) ==
    /\ rq[p].pc = "awaitAds"
    /\ rq' = [rq EXCEPT ![p] = Answer(@, "200 profiles")]
    /\ UNCHANGED <<TOKENS, now, gatewayVars, repoVars>>

\* getAccessToken(storeId) of GET /api/token, up to the refresh call
GetAccessTokenStart(p, storeId) ==
    /\ rq[p].pc = "idle"
    /\ rq' = [rq EXCEPT ![p] =
                IF ~Truthy(getRefreshToken(storeId))
                THEN Answer(Begin(p, "getAccessToken", storeId), "500 Missing refresh token")
                ELSE CallTokenEndpoint(Begin(p, "getAccessToken", storeId),
                                       getRefreshToken(storeId))]
    /\ UNCHANGED <<TOKENS, now, gatewayVars, repoVars>>

\* return data
GetAccessTokenDone(p, expires_in) ==
    /\ rq[p].pc = "awaitToken"
    /\ rq[p].op = "getAccessToken"
    /\ rq' = [rq EXCEPT ![p] = [Answer(@, "200 token") EXCEPT
                                    !.expires = now + expires_in]]
    /\ UNCHANGED <<TOKENS, now, gatewayVars, repoVars>>

\* if (!res.ok) throw, or fetch rejects: the route answers 500
GetAccessTokenFailed(p) ==
    /\ rq[p].pc = "awaitToken"
    /\ rq[p].op = "getAccessToken"
    /\ rq' = [rq EXCEPT ![p] = Answer(@, "500 LWA token error")]
    /\ UNCHANGED <<TOKENS, now, gatewayVars, repoVars>>

\* GET /api/token/exchange?store=..., up to the refresh call
TokenExchangeStart(p, storeId) ==
    /\ rq[p].pc = "idle"
    /\ LET store == getStoreWithToken(toLowerCase(storeId))
       IN  rq' = [rq EXCEPT ![p] =
                IF store = null
                THEN Answer(Begin(p, "tokenExchange", storeId),
                            "400 unknown_store_or_missing_token")
                ELSE CallTokenEndpoint(Begin(p, "tokenExchange", storeId),
                                       refreshTokenOf(store))]
    /\ UNCHANGED <<TOKENS, now, gatewayVars, repoVars>>

\* res.json({ ok: true, access_token, ... })
TokenExchangeDone(p, expires_in) ==
    /\ rq[p].pc = "awaitToken"
    /\ rq[p].op = "tokenExchange"
    /\ rq' = [rq EXCEPT ![p] = [Answer(@, "200 token") EXCEPT
                                    !.expires = now + expires_in]]
    /\ UNCHANGED <<TOKENS, now, gatewayVars, repoVars>>

\* !response.ok: 500 exchange_failed; fetch rejects: 500 server_error
TokenExchangeFailed(p, reply) ==
    /\ rq[p].pc = "awaitToken"
    /\ rq[p].op = "tokenExchange"
    /\ rq' = [rq EXCEPT ![p] = Answer(@, reply)]
    /\ UNCHANGED <<TOKENS, now, gatewayVars, repoVars>>

\* time passes
Tick ==
    /\ now < MaxTime
    /\ now' = now + 1
    /\ UNCHANGED <<TOKENS, rq, gatewayVars, repoVars>>

\* the answers of the token endpoint to the authorization_code grant; a
\* success body may lack its refresh_token
CodeGrantAnswers ==
    [access_token : {"Atza|0"}, refresh_token : RefreshTokens \cup {Undefined},
     expires_in : ExpiresIn]

StoreArgs == {"kav_plus", "jk", "zz"}

BrokerNext ==
    \/ \E p \in Reqs, route \in Slots, query \in {"error", "nocode", "code"} :
          CallbackStart(p, route, query)
    \/ \E p \in Reqs, tokens \in CodeGrantAnswers : CallbackSaved(p, tokens)
    \/ \E p \in Reqs : CallbackFailed(p)
    \/ \E p \in Reqs : AdsProfilesStart(p)
    \/ \E p \in Reqs, e \in ExpiresIn : AdsProfilesRefreshed(p, e)
    \/ \E p \in Reqs : AdsProfilesFailed(p)
    \/ \E p \in Reqs : AdsProfilesDone(p)
    \/ \E p \in Reqs, s \in StoreArgs : GetAccessTokenStart(p, s)
    \/ \E p \in Reqs, e \in ExpiresIn : GetAccessTokenDone(p, e)
    \/ \E p \in Reqs : GetAccessTokenFailed(p)
    \/ \E p \in Reqs, s \in StoreArgs : TokenExchangeStart(p, s)
    \/ \E p \in Reqs, e \in ExpiresIn : TokenExchangeDone(p, e)
    \/ \E p \in Reqs, reply \in {"500 exchange_failed", "500 server_error"} :
          TokenExchangeFailed(p, reply)
    \/ Tick

BrokerInit ==
    /\ TOKENS = [slot \in Slots |-> null]
    /\ now = 0
    /\ rq = [p \in Reqs |-> Idle]

\* =================================================== the store repository
\* stores.json as deployed: the two stores of the README
ConfiguredStores ==
    << [key |-> "kavplus", name |-> "KAV PLUS"], [key |-> "jk", name |-> "J&K"] >>

Writers == 1..MaxWriters
StoreKeys == {"kavplus", "jk", "zz"}

\* getStores: the parsed file, [] when it cannot be read
getStores == IF file.exists THEN file.list ELSE <<>>

\* list.findIndex(s => s.key === key): 0 stands for -1
findIndex(list, key) ==
    IF \E i \in 1..Len(list) : list[i].key = key
    THEN CHOOSE i \in 1..Len(list) :
            list[i].key = key /\ \A j \in 1..(i - 1) : list[j].key # key
    ELSE 0

\* { ...(list[i].spapi || {}), refresh_token: refreshToken, region }
spapi(store, refreshToken, region) ==
    LET old == IF "spapi" \in DOMAIN store THEN store.spapi ELSE <<>>
    IN  [refresh_token |-> refreshToken, region |-> region] @@ old

\* a call not yet made
NoCall ==
    [op |-> None, key |-> None, store |-> null, token |-> None, pc |-> "idle",
     list |-> <<>>, result |-> None]

\* a slip: saveStore refuses a store it does not find
SaveStoreListStrict(list, store) ==
    IF findIndex(list, store.key) = 0 THEN list
    ELSE [list EXCEPT ![findIndex(list, store.key)] = store]

\* if (i === -1) list.push(store); else list[i] = store;
SaveStoreList(list, store) ==
    IF findIndex(list, store.key) = 0 THEN Append(list, store)
    ELSE [list EXCEPT ![findIndex(list, store.key)] = store]

\* saveStore(store): getStores() has answered, the list is changed in memory
\* and fs.writeFile is started
SaveStoreRead(w, store) ==
    /\ wr[w].pc = "idle"
    /\ wr' = [wr EXCEPT ![w] =
                [NoCall EXCEPT !.op = "saveStore", !.key = store.key, !.store = store,
                               !.pc = "writing",
                               !.list = SaveStoreList(getStores, store)]]
    /\ UNCHANGED <<file, gatewayVars, brokerVars>>

\* setSpapiRefreshToken(storeKey, refreshToken): getStores() has answered;
\* an unknown key throws, otherwise the record is changed in memory and
\* fs.writeFile is started
SetSpapiRefreshTokenRead(w, storeKey, refreshToken) ==
    /\ wr[w].pc = "idle"
    /\ LET list == getStores
           i == findIndex(list, storeKey)
           call == [NoCall EXCEPT !.op = "setSpapiRefreshToken", !.key = storeKey,
                                  !.token = refreshToken]
       IN  wr' = [wr EXCEPT ![w] =
                IF i = 0
                THEN [call EXCEPT !.pc = "done", !.result = "Unknown store"]
                ELSE [call EXCEPT !.pc = "writing",
                         !.list = [list EXCEPT ![i] =
                                      [spapi |-> spapi(list[i], refreshToken, "eu")] @@ list[i]]]]
    /\ UNCHANGED <<file, gatewayVars, brokerVars>>

\* await fs.writeFile(STORES_PATH, JSON.stringify(list, null, 2)) completes
WriteFile(w) ==
    /\ wr[w].pc = "writing"
    /\ file' = [exists |-> TRUE, list |-> wr[w].list]
    /\ wr' = [wr EXCEPT ![w] = [@ EXCEPT !.pc = "done", !.result = "ok"]]
    /\ UNCHANGED <<gatewayVars, brokerVars>>

NewStores == [key : StoreKeys, name : {"New name"}]

RepoNext ==
    \/ \E w \in Writers, store \in NewStores : SaveStoreRead(w, store)
    \/ \E w \in Writers, k \in StoreKeys, t \in RefreshTokens :
          SetSpapiRefreshTokenRead(w, k, t)
    \/ \E w \in Writers : WriteFile(w)

\* no repository call is made
RepoAtRest ==
    /\ file = [exists |-> TRUE, list |-> ConfiguredStores]
    /\ wr = [w \in Writers |-> NoCall]

\* stores.json as deployed, or not there
RepoInit ==
    /\ file \in {[exists |-> TRUE, list |-> ConfiguredStores],
                 [exists |-> FALSE, list |-> <<>>]}
    /\ wr = [w \in Writers |-> NoCall]

\* ------------------------------------------------------------ /ai/chat
Hints == {None, "auto", "OpenAI", "aimlapi", "anthropic", "gemini", "llama"}
User == [role |-> "user", content |-> "hi"]
Assistant == [role |-> "assistant", content |-> "hello"]
SystemOfCaller == [role |-> "system", content |-> "Be terse"]

\* req.body: provider, model and system may be absent; absent messages are
\* the empty list (Array.isArray(...) ? ... : [])
NoRequest == [provider |-> None, model |-> None, system |-> None, messages |-> <<>>]
Requests == [provider : Hints, model : {None}, system : {None}, messages : {<<User>>}]

\* requests that vary the model, the system text and the messages
MessageLists ==
    { <<>>, <<User>>, <<SystemOfCaller, User>>, <<User, Assistant, SystemOfCaller>> }
ChatRequests ==
    [provider : {None, "aimlapi", "anthropic", "gemini"}, model : {None, "gpt-4o"},
     system : {None, "Be brief"}, messages : MessageLists]

\* a || b of JavaScript
Or(a, b) == IF a \in {None, Undefined, ""} THEN b ELSE a

\* const DEFAULT_MODEL = process.env.AI_MODEL || "gpt-4o-mini"
DEFAULT_MODEL(aiModel) == Or(aiModel, "gpt-4o-mini")

\* const model = req.body?.model || DEFAULT_MODEL
Model(r, aiModel) == Or(r.model, DEFAULT_MODEL(aiModel))

DefaultSystem == "You are ChatKAV+, a helpful assistant for Amazon sellers."

\* const system = req.body?.system || "You are ChatKAV+, ..."
System(r) == Or(r.system, DefaultSystem)

\* const normalized = [{ role: "system", content: system }, ...messages]
normalized(r) == <<[role |-> "system", content |-> System(r)]>> \o r.messages

IsSystem(m) == m.role = "system"
NotSystem(m) == m.role # "system"

\* normalized.find((m) => m.role === "system")?.content
sys(msgs) ==
    IF \E i \in 1..Len(msgs) : IsSystem(msgs[i])
    THEN msgs[CHOOSE i \in 1..Len(msgs) :
                  IsSystem(msgs[i]) /\ \A j \in 1..(i - 1) : ~IsSystem(msgs[j])].content
    ELSE Undefined

\* .map((m) => `${m.role.toUpperCase()}: ${m.content}`), joined by newlines
concat(msgs) ==
    LET kept == SelectSeq(msgs, NotSystem)
    IN  [i \in 1..Len(kept) |-> toUpperCase(kept[i].role) \o ": " \o kept[i].content]

\* the JSON body of the upstream call of provider c
Body(c, r, aiModel) ==
    CASE c \in {"openai", "aimlapi"} ->
            [model |-> Model(r, aiModel), messages |-> normalized(r)]
      [] c = "anthropic" ->
            [model |-> Or(Model(r, aiModel), "claude-3-5-sonnet-20240620"),
             system |-> sys(normalized(r)),
             messages |-> SelectSeq(normalized(r), NotSystem)]
      [] c = "gemini" ->
            [model |-> Or(Model(r, aiModel), "gemini-1.5-flash"),
             contents |-> concat(normalized(r))]

\* no request has arrived yet
GatewayAtRest ==
    /\ req = NoRequest
    /\ chosen = None
    /\ upstream = <<>>
    /\ buffer = <<>>
    /\ out = <<>>
    /\ fetches = <<>>
    /\ failed = FALSE
    /\ sentBody = null
    /\ closed = null

GatewayInit ==
    /\ env \in [keys : SUBSET ProviderSet, AI_PROVIDER : {"auto", "anthropic"}]
    /\ pc = "idle"
    /\ GatewayAtRest
    /\ maxLines = MaxFramesAnyEnv
    /\ AI_MODEL = None

\* the configuration with every key set and AI_PROVIDER unset, longer bodies
GatewayInitStream ==
    /\ env = [keys |-> ProviderSet, AI_PROVIDER |-> "auto"]
    /\ pc = "idle"
    /\ GatewayAtRest
    /\ maxLines = MaxFrames
    /\ AI_MODEL = None

\* the configuration with every key set, AI_MODEL set or not
GatewayInitPayload ==
    /\ env = [keys |-> ProviderSet, AI_PROVIDER |-> "auto"]
    /\ pc = "idle"
    /\ GatewayAtRest
    /\ maxLines = MaxFramesPayload
    /\ AI_MODEL \in {None, "my-model"}

\* the configuration with every key set, shorter bodies
GatewayInitCaller ==
    /\ env = [keys |-> ProviderSet, AI_PROVIDER |-> "auto"]
    /\ pc = "idle"
    /\ GatewayAtRest
    /\ maxLines = MaxFramesAnyEnv
    /\ AI_MODEL = None

\* } catch (e) { res.write(error); res.end(); }
Catch(o) == end(send(o, ErrorEv("e.message")))

\* the handler up to its first await: provider choice, key check, fetch
ChatStart(r) ==
    /\ pc = "idle"
    /\ req' = r
    /\ chosen' = Chosen(env, r)
    /\ IF chosen' \notin ProviderSet
       THEN /\ out' = end(send(out, ErrorEv("Unknown provider: " \o chosen')))
            /\ pc' = "done"
            /\ fetches' = fetches
       ELSE IF ~HasKey(env, chosen')
       THEN /\ out' = end(send(out, ErrorEv(KeyMissing(chosen'))))
            /\ pc' = "done"
            /\ fetches' = fetches
       ELSE /\ out' = out
            /\ pc' = "fetching"
            /\ fetches' = Append(fetches, chosen')
    /\ sentBody' = IF pc' = "fetching" THEN Body(chosen', r, AI_MODEL) ELSE sentBody
    /\ UNCHANGED <<brokerVars, repoVars, AI_MODEL, closed, maxLines, env, upstream, buffer, failed>>

\* await fetch(...) rejects: the catch block reports it
FetchThrows ==
    /\ pc = "fetching"
    /\ failed' = TRUE
    /\ out' = Catch(out)
    /\ pc' = "done"
    /\ UNCHANGED <<brokerVars, repoVars, AI_MODEL, sentBody, closed, maxLines, env, req, chosen, upstream, buffer, fetches>>

\* if (!r.ok || !r.body) { send({ error }); return end(); }
FetchNotOk ==
    /\ pc = "fetching"
    /\ out' = end(send(out, ErrorEv(UpstreamError(chosen))))
    /\ pc' = "done"
    /\ UNCHANGED <<brokerVars, repoVars, AI_MODEL, sentBody, closed, maxLines, env, req, chosen, upstream, buffer, fetches, failed>>

\* a success status with a body: the streaming branches start to read
FetchOkStream ==
    /\ pc = "fetching"
    /\ chosen # "gemini"
    /\ pc' = "reading"
    /\ buffer' = <<>>
    /\ UNCHANGED <<brokerVars, repoVars, AI_MODEL, sentBody, closed, maxLines, env, req, chosen, upstream, out, fetches, failed>>

\* Gemini: the whole answer, sent one character at a time
FetchOkGemini(text) ==
    /\ pc = "fetching"
    /\ chosen = "gemini"
    /\ upstream' = text
    /\ out' = end(SendEach(text, out))
    /\ pc' = "done"
    /\ UNCHANGED <<brokerVars, repoVars, AI_MODEL, sentBody, closed, maxLines, env, req, chosen, buffer, fetches, failed>>

\* Gemini: await r.json() rejects
GeminiJsonThrows ==
    /\ pc = "fetching"
    /\ chosen = "gemini"
    /\ failed' = TRUE
    /\ out' = Catch(out)
    /\ pc' = "done"
    /\ UNCHANGED <<brokerVars, repoVars, AI_MODEL, sentBody, closed, maxLines, env, req, chosen, upstream, buffer, fetches>>

\* a slip: the unfinished last line is dropped instead of kept
popDropped(lines) == <<>>

\* buffer = lines.pop() || ""
pop(lines) == lines[Len(lines)]

\* one turn of the OpenAI-compatible while loop with done = false
ReadOpenAI(chunk) ==
    /\ pc = "reading"
    /\ chosen \in {"openai", "aimlapi"}
    /\ upstream' = upstream \o chunk
    /\ LET lines == split(buffer \o chunk)
           res == ProcessOpenAI(SubSeq(lines, 1, Len(lines) - 1), out)
       IN  /\ buffer' = pop(lines)
           /\ out' = res.out
           /\ pc' = IF res.ended THEN "done" ELSE "reading"
    /\ UNCHANGED <<brokerVars, repoVars, AI_MODEL, sentBody, closed, maxLines, env, req, chosen, fetches, failed>>

\* one turn of the Anthropic while loop with done = false
ReadAnthropic(chunk) ==
    /\ pc = "reading"
    /\ chosen = "anthropic"
    /\ upstream' = upstream \o chunk
    /\ out' = ProcessAnthropic(split(chunk), out)
    /\ UNCHANGED <<brokerVars, repoVars, AI_MODEL, sentBody, closed, maxLines, env, pc, req, chosen, buffer, fetches, failed>>

\* reader.read() answers done: break, end()
ReadDone ==
    /\ pc = "reading"
    /\ out' = end(out)
    /\ pc' = "done"
    /\ UNCHANGED <<brokerVars, repoVars, AI_MODEL, sentBody, closed, maxLines, env, req, chosen, upstream, buffer, fetches, failed>>

\* reader.read() rejects in the middle of the body
ReadThrows ==
    /\ pc = "reading"
    /\ failed' = TRUE
    /\ out' = Catch(out)
    /\ pc' = "done"
    /\ UNCHANGED <<brokerVars, repoVars, AI_MODEL, sentBody, closed, maxLines, env, req, chosen, upstream, buffer, fetches>>

\* the caller closes the connection while the handler awaits the upstream;
\* the handler registers no listener for it and is not told
CallerDisconnects ==
    /\ pc \in {"fetching", "reading"}
    /\ closed = null
    /\ closed' = [out |-> Len(out), upstream |-> Len(upstream)]
    /\ UNCHANGED <<brokerVars, repoVars, AI_MODEL, sentBody, maxLines, env, pc, req, chosen,
                   upstream, buffer, out, fetches, failed>>

\* what the next reader.read() may deliver
NextChunks ==
    (Chunks(chosen, upstream, MaxChunk, maxLines)
        \cup LineChunks(chosen, upstream, MaxChunkLines, maxLines)) \ {<<>>}

Next ==
    \/ \E r \in Requests : ChatStart(r)
    \/ FetchThrows
    \/ FetchNotOk
    \/ FetchOkStream
    \/ \E text \in GeminiTexts : FetchOkGemini(text)
    \/ GeminiJsonThrows
    \/ pc = "reading" /\ \E chunk \in NextChunks : ReadOpenAI(chunk)
    \/ pc = "reading" /\ \E chunk \in NextChunks : ReadAnthropic(chunk)
    \/ ReadDone
    \/ ReadThrows

\* /ai/chat served for requests that vary model, system text and messages
NextPayload ==
    \/ \E r \in ChatRequests : ChatStart(r)
    \/ FetchThrows
    \/ FetchNotOk
    \/ FetchOkStream
    \/ \E text \in GeminiTexts : FetchOkGemini(text)
    \/ GeminiJsonThrows
    \/ pc = "reading" /\ \E chunk \in NextChunks : ReadOpenAI(chunk)
    \/ pc = "reading" /\ \E chunk \in NextChunks : ReadAnthropic(chunk)
    \/ ReadDone
    \/ ReadThrows

InitPayload == GatewayInitPayload /\ BrokerInit /\ RepoAtRest

\* /ai/chat served to a caller that may leave in the middle
NextCaller ==
    \/ \E r \in Requests : ChatStart(r)
    \/ FetchThrows
    \/ FetchNotOk
    \/ FetchOkStream
    \/ \E text \in GeminiTexts : FetchOkGemini(text)
    \/ GeminiJsonThrows
    \/ pc = "reading" /\ \E chunk \in NextChunks : ReadOpenAI(chunk)
    \/ pc = "reading" /\ \E chunk \in NextChunks : ReadAnthropic(chunk)
    \/ ReadDone
    \/ ReadThrows
    \/ CallerDisconnects

InitCaller == GatewayInitCaller /\ BrokerInit /\ RepoAtRest

InitStream == GatewayInitStream /\ BrokerInit /\ RepoAtRest

\* the gateway and the token routes at rest, the repository as deployed or empty
InitRepo == GatewayInitStream /\ BrokerInit /\ RepoInit

Init == GatewayInit /\ BrokerInit /\ RepoAtRest

Spec == Init /\ [][Next]_vars

SpecStream == InitStream /\ [][Next]_vars

SpecPayload == InitPayload /\ [][NextPayload]_vars

SpecCaller == InitCaller /\ [][NextCaller]_vars

\* the store repository alone
SpecRepo == InitRepo /\ [][RepoNext]_vars

\* the token routes alone, the gateway at rest
SpecBroker == InitStream /\ [][BrokerNext]_vars

\* =================================================================== claims
Kinds(o) == [i \in 1..Len(o) |-> o[i].kind]

\* C1: every /ai/chat response is terminated exactly once: nothing is written
\* after the end, an error event is followed by the end alone, and a finished
\* handler has ended the response.
C1_TerminatedOnce ==
    /\ \A i \in 1..Len(out) : out[i].kind = "end" => i = Len(out)
    /\ \A i \in 1..Len(out) :
          out[i].kind = "error" => (i = Len(out) - 1 /\ out[Len(out)].kind = "end")
    /\ (pc = "done") = (out # <<>> /\ out[Len(out)].kind = "end")

\* C1 witness: a failure while reading the body, after a token was written
C1_Witness ==
    /\ pc = "done"
    /\ failed
    /\ Kinds(out) = <<"token", "error", "end">>

\* the deltas t1..tn as OpenAI-style frames, each line ended by a newline
RECURSIVE Frames(_)
Frames(ts) ==
    IF ts = <<>> THEN <<>>
    ELSE DeltaLine("content:" \o Head(ts)) \o <<NL>> \o Frames(Tail(ts))

Tokens(ts) == [i \in 1..Len(ts) |-> TokenEv(ts[i])]

NonEmpty(t) == t # ""

DeltaSeqs == UNION { [1..n -> {"Hel", "lo", ""}] : n \in 0..(MaxFrames - 1) }

\* the body read was the frames of ts and then data: [DONE], and the handler
\* finished without a failure
ReadFramesThenDone(ts) ==
    LET body == Frames(ts) \o DoneLine
    IN  /\ pc = "done"
        /\ chosen \in {"openai", "aimlapi"}
        /\ ~failed
        /\ IsPrefix(body, upstream)
        /\ Len(upstream) > Len(body) => upstream[Len(body) + 1] = NL

\* C5 as stated: every delta content t1..tn is written as a token, in order,
\* then the end
C5_EveryDeltaEmitted ==
    \A ts \in DeltaSeqs : ReadFramesThenDone(ts) => out = end(Tokens(ts))

\* C5 amended: the non-empty delta contents are written as tokens, in order,
\* then the end; a frame whose content is empty writes nothing
C5_NonEmptyDeltasEmitted ==
    \A ts \in DeltaSeqs :
        ReadFramesThenDone(ts) => out = end(Tokens(SelectSeq(ts, NonEmpty)))

\* C5 witness: Hel, lo, [DONE] read to the end
C5_Witness ==
    /\ ReadFramesThenDone(<<"Hel", "lo">>)
    /\ out = <<TokenEv("Hel"), TokenEv("lo"), EndEv>>

\* the first provider of the priority order that has a key, if any has
FirstKeyed(p) ==
    \E i \in 1..Len(Providers) :
        /\ Providers[i] = p
        /\ p \in env.keys
        /\ \A j \in 1..(i - 1) : Providers[j] \notin env.keys

NoHint == pc # "idle" /\ req.provider = None

\* C9 as stated: without a hint the provider used is the first of the
\* priority order that has a key
C9_FirstKeyedChosen ==
    \A p \in ProviderSet : (NoHint /\ FirstKeyed(p)) => chosen = p

\* C9 amended: the same, when AI_PROVIDER is unset or "auto"
C9_FirstKeyedChosenWhenAuto ==
    \A p \in ProviderSet :
        (NoHint /\ PROVIDER(env) = "auto" /\ FirstKeyed(p)) => chosen = p

\* C9 witness: openai and aimlapi without a key, anthropic and gemini with one
C9_Witness ==
    /\ NoHint
    /\ PROVIDER(env) = "auto"
    /\ env.keys = {"anthropic", "gemini"}
    /\ chosen = "anthropic"
    /\ fetches = <<"anthropic">>

IsKeyMissing(ev) == ev.kind = "error" /\ \E p \in ProviderSet : ev.text = KeyMissing(p)

NeedsToken(p) == rq[p].op \in {"getAccessToken", "adsProfiles"}

Simultaneous(p, q) ==
    /\ p # q
    /\ NeedsToken(p) /\ NeedsToken(q)
    /\ rq[p].store = rq[q].store
    /\ rq[p].authorized /\ rq[q].authorized
    /\ ~rq[p].cached /\ ~rq[q].cached
    /\ rq[p].pc = "awaitToken" /\ rq[q].pc = "awaitToken"

NotAuthorizedReplies ==
    { "500 Missing refresh token", "400 unknown_store_or_missing_token",
      "400 No Ads refresh token" }

\* C4: for a store without a refresh token, getAccessToken, /api/token/exchange
\* and /ads/profiles make no upstream call and answer not authorized
C4_NotAuthorizedNoCall ==
    \A p \in Reqs :
        (rq[p].op \in {"getAccessToken", "tokenExchange", "adsProfiles"}
            /\ ~rq[p].authorized) =>
            /\ rq[p].tokenCalls = 0
            /\ rq[p].otherCalls = 0
            /\ rq[p].pc = "done"
            /\ rq[p].reply \in NotAuthorizedReplies

\* the property of a record, undefined when the record has none
Field(rec, f) == IF f \in DOMAIN rec THEN rec[f] ELSE Undefined

\* request p stores the answer of the exchange in this step
Saves(p) == rq[p].pc = "awaitToken" /\ rq'[p].reply = "200 saved"

C7_MissingRefreshTokenFails ==
    \A p \in Reqs :
        (rq[p].op = "callback" /\ rq[p].got = Undefined) => rq[p].reply # "200 saved"

\* C8: a refresh token, once set, is unchanged by every step that is not a
\* successful authorization callback for the same store
C8_RefreshTokenKept ==
    [][\A slot \in Slots :
          (/\ Truthy(refresh_token(slot))
           /\ ~\E p \in Reqs : rq[p].op = "callback" /\ rq[p].store = slot /\ Saves(p))
          => Field(TOKENS'[slot], "refresh_token") = refresh_token(slot)]_vars

\* C8 witness: the ads token was set, then /ads/profiles refreshed with it and
\* answered, and the token is still there
C8_Witness ==
    \E p, q \in Reqs :
        /\ rq[p].op = "callback" /\ rq[p].store = "ads" /\ rq[p].reply = "200 saved"
        /\ rq[q].op = "adsProfiles" /\ rq[q].reply = "200 profiles"
        /\ rq[q].sent = rq[p].got
        /\ refresh_token("ads") = rq[p].got

\* ---------------------------------------------- claims: provider hints
\* the provider values the /ai/chat documentation lists
Documented == {"auto", "openai", "anthropic", "gemini", "aimlapi"}

IsUnknownProvider(ev) ==
    ev.kind = "error" /\ \E h \in Hints : ev.text = "Unknown provider: " \o toLowerCase(h)

\* C11: every documented provider value is accepted; a request with provider
\* "auto" is resolved like a request without a hint and never ends in an
\* "Unknown provider" error
C11_AutoHintAccepted ==
    (pc # "idle" /\ toLowerCase(req.provider) \in Documented) =>
        /\ \A i \in 1..Len(out) : ~IsUnknownProvider(out[i])
        /\ req.provider = "auto" => chosen = toLowerCase(pickProvider(env))

\* ------------------------------------------- claims: the upstream request
HasSystem(r) == \E i \in 1..Len(r.messages) : IsSystem(r.messages[i])

Called == pc # "idle" /\ sentBody # null

\* C12: the messages sent upstream are the caller's messages in the caller's
\* order; the default system message is prepended only when the caller's
\* messages hold no system message, and a system message of the caller is the
\* one the provider receives (for Anthropic: in the system parameter)
C12_SystemOnlyIfNone ==
    (Called /\ chosen \in {"openai", "aimlapi", "anthropic"}) =>
        IF chosen = "anthropic"
        THEN /\ sentBody.messages = SelectSeq(req.messages, NotSystem)
             /\ sentBody.system =
                    (IF HasSystem(req) THEN sys(req.messages) ELSE System(req))
        ELSE sentBody.messages =
                    (IF HasSystem(req) THEN req.messages ELSE normalized(req))

\* the default model each branch names for its own provider
OwnDefault(c) ==
    CASE c \in {"openai", "aimlapi"} -> "gpt-4o-mini"
      [] c = "anthropic" -> "claude-3-5-sonnet-20240620"
      [] c = "gemini" -> "gemini-1.5-flash"

\* C13: the model sent upstream is the model of the request when it has one;
\* without one (and without AI_MODEL in the environment) it is the default of
\* the provider chosen, not the OpenAI default
C13_ProviderDefaultModel ==
    Called =>
        /\ req.model # None => sentBody.model = req.model
        /\ (req.model = None /\ AI_MODEL = None) => sentBody.model = OwnDefault(chosen)

\* ------------------------------------------- claims: the caller leaves
\* C14: once the caller has disconnected the handler reads nothing more from
\* the upstream and attempts no write: no token, error or end event
C14_NothingAfterDisconnect ==
    closed # null =>
        /\ Len(out) = closed.out
        /\ Len(upstream) = closed.upstream

\* ---------------------------------------------- claims: the line loops
\* the frames of each format and the text they carry
FrameTexts(c) ==
    IF c = "anthropic"
    THEN (<<"{", "delta.text:Hel", "}">> :> "Hel") @@
         (<<"{", "content_block.text:lo", "}">> :> "lo") @@
         (<<"{", "delta.text:", "content_block.text:lo", "}">> :> "lo")
    ELSE (DeltaLine("content:Hel") :> "Hel") @@
         (DeltaLine("content:lo") :> "lo") @@
         (DeltaLine("content:") :> "")

\* the line is none of the frames of the format, nor its [DONE], white space
\* around it aside
Unparseable(c, line) ==
    /\ trim(line) \notin DOMAIN FrameTexts(c)
    /\ ~(c # "anthropic" /\ trim(line) = DoneLine)

\* what the lines are to produce: a token for each frame with text, nothing
\* for any other line, the end at [DONE] of the OpenAI format
RECURSIVE EventsOf(_, _)
EventsOf(c, lines) ==
    IF lines = <<>> THEN <<>>
    ELSE IF c # "anthropic" /\ trim(Head(lines)) = DoneLine THEN <<EndEv>>
    ELSE IF ~Unparseable(c, Head(lines)) /\ FrameTexts(c)[trim(Head(lines))] # ""
    THEN <<TokenEv(FrameTexts(c)[trim(Head(lines))])>> \o EventsOf(c, Tail(lines))
    ELSE EventsOf(c, Tail(lines))

\* what the read of this step delivered
ChunkRead == SubSeq(upstream', Len(upstream) + 1, Len(upstream'))

\* the lines the line loop of this step runs on
LoopLines ==
    IF chosen = "anthropic" THEN split(ChunkRead)
    ELSE LET lines == split(buffer \o ChunkRead) IN SubSeq(lines, 1, Len(lines) - 1)

Reads == pc = "reading" /\ upstream' # upstream

StartsUnknown(w) ==
    /\ wr[w].pc = "idle"
    /\ wr'[w].pc # "idle"
    /\ findIndex(getStores, wr'[w].key) = 0

\* C16 as stated: a write for a key that is not among the stored stores fails
\* with an unknown-store error, leaves the list unchanged and adds no store
C16_UnknownStoreRejected ==
    [][\A w \in Writers :
          StartsUnknown(w) =>
             /\ wr'[w].pc = "done"
             /\ wr'[w].result = "Unknown store"
             /\ wr'[w].list = wr[w].list
             /\ file' = file]_vars

\* C16 amended: setSpapiRefreshToken for such a key fails with "Unknown
\* store" and writes nothing; saveStore for such a key appends the store to
\* the list it read and writes that list
C16_OnlySetTokenRejects ==
    [][\A w \in Writers :
          /\ StartsUnknown(w) =>
                IF wr'[w].op = "setSpapiRefreshToken"
                THEN /\ wr'[w].pc = "done"
                     /\ wr'[w].result = "Unknown store"
                     /\ file' = file
                ELSE /\ wr'[w].pc = "writing"
                     /\ wr'[w].list = Append(getStores, wr'[w].store)
                     /\ file' = file
          /\ (wr[w].pc = "writing" /\ wr'[w].pc = "done") =>
                file' = [exists |-> TRUE, list |-> wr[w].list]]_vars

\* C16 witness: setSpapiRefreshToken for zz was refused, then saveStore for zz
\* added it as the third store
C16_Witness ==
    \E v, w \in Writers :
        /\ wr[v].op = "setSpapiRefreshToken" /\ wr[v].key = "zz"
        /\ wr[v].result = "Unknown store"
        /\ wr[w].op = "saveStore" /\ wr[w].key = "zz" /\ wr[w].result = "ok"
        /\ file.list = Append(ConfiguredStores, [key |-> "zz", name |-> "New name"])

\* the update of call w is in the stored list
Applied(w) ==
    \E i \in 1..Len(file.list) :
        /\ file.list[i].key = wr[w].key
        /\ IF wr[w].op = "saveStore" THEN file.list[i] = wr[w].store
           ELSE /\ "spapi" \in DOMAIN file.list[i]
                /\ file.list[i].spapi.refresh_token = wr[w].token

\* C18: two repository writes for different keys both take effect: once both
\* have completed the stored list holds both updates, however their reads and
\* writes interleave
C18_BothWritesKept ==
    \A v, w \in Writers :
        (/\ wr[v].result = "ok" /\ wr[w].result = "ok"
         /\ wr[v].key # wr[w].key) => (Applied(v) /\ Applied(w))

\* ------------------------------------------- claims: chunks and [DONE]
IsToken(ev) == ev.kind = "token"

\* the handler has read the body to its end, or to [DONE], without a failure
ReadToTheEnd ==
    /\ pc = "done"
    /\ ~failed
    /\ chosen \in {"openai", "aimlapi", "anthropic"}
    /\ out[Len(out)] = EndEv
    /\ \A i \in 1..Len(out) : out[i].kind # "error"

\* C17: in both streaming paths the tokens written depend on the bytes of the
\* upstream body alone: they are the tokens of its lines, as when the body
\* arrives in one chunk with every line ended by a newline - also when a line
\* is cut across two reads or the last line has no newline
C17_ChunkingIrrelevant ==
    ReadToTheEnd =>
        SelectSeq(out, IsToken) = SelectSeq(EventsOf(chosen, split(upstream)), IsToken)

\* the lines of the body that have arrived with their newline
CompleteLines(up) == LET lines == split(up) IN SubSeq(lines, 1, Len(lines) - 1)

\* a data: [DONE] line has been read in the OpenAI-compatible path
DoneRead ==
    /\ chosen \in {"openai", "aimlapi"}
    /\ LET lines == CompleteLines(upstream)
       IN  \E i \in 1..Len(lines) : lines[i] = DoneLine

\* C19: in the OpenAI-compatible path, once data: [DONE] is read the stream
\* is ended exactly once and nothing more is read or written: what was
\* written is the tokens of the frames before [DONE] and one end, and frames
\* after [DONE], in the same chunk or later, write no token
C19_NothingAfterDone ==
    /\ [](DoneRead =>
            /\ pc = "done"
            /\ out = EventsOf(chosen, CompleteLines(upstream))
            /\ Cardinality({i \in 1..Len(out) : out[i].kind = "end"}) = 1)
    /\ [][DoneRead => (out' = out /\ upstream' = upstream)]_vars

\* C19 witness: a frame, [DONE] and one more frame in the chunk that brought
\* the newline of [DONE]: one token and the end were written
C19_Witness ==
    /\ DoneRead
    /\ upstream = DeltaLine("content:Hel") \o <<NL>> \o DoneLine \o <<NL>>
                      \o DeltaLine("content:lo") \o <<NL>>
    /\ out = <<TokenEv("Hel"), EndEv>>

\* ---------------------------------------------- claims: the key check
KeyMissingText ==
    ("openai" :> "OPENAI key missing") @@ ("aimlapi" :> "AIMLAPI key missing") @@
    ("anthropic" :> "ANTHROPIC_API_KEY missing") @@ ("gemini" :> "GEMINI_API_KEY missing")

\* C20: in every provider branch, when the key of the provider is absent the
\* handler writes the key-missing error of the provider and the end and
\* issues no upstream call; an upstream call is issued only with the key
C20_NoCallWithoutKey ==
    /\ \A i \in 1..Len(fetches) : fetches[i] \in env.keys
    /\ (pc # "idle" /\ chosen \in ProviderSet /\ chosen \notin env.keys) =>
          /\ pc = "done"
          /\ out = <<ErrorEv(KeyMissingText[chosen]), EndEv>>
          /\ fetches = <<>>

\* C20 witness: gemini asked for by the request, only the OpenAI key is set
C20_Witness ==
    /\ req.provider = "gemini"
    /\ env.keys = {"openai"}
    /\ chosen = "gemini"
    /\ out = <<ErrorEv("GEMINI_API_KEY missing"), EndEv>>
    /\ fetches = <<>>

\* ------------------------------------------- claims: Anthropic frames
\* the JSON body of a server-sent-event line data: {...}, or <<>>
SseBody(line) ==
    LET s == trim(line) IN IF startsWithData(s) THEN trim(Tail(s)) ELSE <<>>

IsSseFrame(line) == SseBody(line) \in DOMAIN FrameTexts("anthropic")

\* the tokens the event lines are to produce: for each, its delta.text when
\* not empty, else its content_block.text when not empty, else nothing
RECURSIVE SseTokens(_)
SseTokens(lines) ==
    IF lines = <<>> THEN <<>>
    ELSE IF IsSseFrame(Head(lines)) /\ FrameTexts("anthropic")[SseBody(Head(lines))] # ""
    THEN <<TokenEv(FrameTexts("anthropic")[SseBody(Head(lines))])>> \o SseTokens(Tail(lines))
    ELSE SseTokens(Tail(lines))

\* C21: in the Anthropic path every event line data: {...} of the upstream
\* stream whose body has a non-empty delta.text writes one token with that
\* text, else one with its non-empty content_block.text, else none, in the
\* order of arrival: a run of the line loop on whole event lines writes
\* their tokens
C21_SseFramesEmitted ==
    [][(/\ Reads
        /\ chosen = "anthropic"
        /\ \A i \in 1..Len(LoopLines) : IsSseFrame(LoopLines[i]) \/ LoopLines[i] = <<>>)
          => out' = out \o SseTokens(LoopLines)]_vars
====
